---- MODULE Spec2Model ----
(***************************************************************************)
(* Model of the question -> plan -> SQL -> rows -> insight pipeline of     *)
(* ollama_streamlit_app (pipeline.py, app.py).                             *)
(*                                                                         *)
(* Text is a sequence of one-character strings, so that the sanitizer      *)
(* clean_sql is computed character by character as the regular             *)
(* expressions and string methods of the source compute it.                *)
(*                                                                         *)
(* Two specifications:                                                     *)
(*   SpecClean  applies clean_sql (twice) to every text of a bounded set.  *)
(*   Spec       runs the two callers of the pipeline (the app's Run Query  *)
(*              flow and the debug runner) against an untrusted completion *)
(*              service and the DuckDB store.                              *)
(***************************************************************************)
EXTENDS Integers, Sequences, FiniteSets, TLC

VARIABLES
    \* ---- sanitizer harness (SpecClean) ----
    phase,      \* "input" | "once" | "twice" | "off"
    raw,        \* the raw SQL text handed to clean_sql
    lines,      \* clean_sql's  sql.splitlines()  on the first application
    good,       \* clean_sql's  good  list on the first application
    out1,       \* clean_sql(raw)
    out2,       \* clean_sql(clean_sql(raw))
    \* ---- pipeline (Spec) ----
    duck,       \* the import-time connection: "open" | "closed"
    pc,         \* per caller: position in the flow
    question,   \* per caller: the question of the current run
    plan,       \* per caller: text returned by make_sql_plan
    completion, \* per caller: raw text returned by the SQL model
    sql,        \* per caller: value returned by make_sql / build_sql_from_plan
    handed,     \* per caller: the argument run_sql was called with
    conn,       \* per caller: the connection handle run_sql holds (0 = none)
    open,       \* set of connection handles currently open
    nextConn,   \* next fresh connection handle
    fetched,    \* per caller: what the store answered to conn.execute(sql)
    rows,       \* per caller: value returned by run_sql
    insightArg, \* per caller: rows argument make_insight was called with
    warned,     \* per caller: st.warning("No rows returned") was shown
    error,      \* per caller: the exception that ended the run ("none" if none)
    events      \* per caller: history of the calls of the current run

cleanVars == <<phase, raw, lines, good, out1, out2>>
pipeVars  == <<duck, pc, question, plan, completion, sql, handed, conn, open,
               nextConn, fetched, rows, insightArg, warned, error, events>>
vars      == <<cleanVars, pipeVars>>

(***************************************************************************)
(* Characters                                                              *)
(***************************************************************************)
UpperLetters == <<"A","B","C","D","E","F","G","H","I","J","K","L","M",
                  "N","O","P","Q","R","S","T","U","V","W","X","Y","Z">>
LowerLetters == <<"a","b","c","d","e","f","g","h","i","j","k","l","m",
                  "n","o","p","q","r","s","t","u","v","w","x","y","z">>
Digits == {"0","1","2","3","4","5","6","7","8","9"}

Range(f) == {f[i] : i \in DOMAIN f}

UpperSet == Range(UpperLetters)

\* the character class [a-zA-Z0-9_]
IdentChars == UpperSet \cup Range(LowerLetters) \cup Digits \cup {"_"}

IsIdentChar(c) == c \in IdentChars

\* \s of the re module and the characters str.strip() removes (the ASCII ones)
SpaceChars == {" ", "\n", "\t", "\r", "\f"}

IsSpace(c) == c \in SpaceChars

\* the characters str.splitlines() breaks on (the ASCII ones the model can write)
LineBreakChars == {"\n", "\r", "\f"}

IsLineBreak(c) == c \in LineBreakChars

\* str.lower() on one character
LowerMap == [c \in UpperSet |->
               LowerLetters[CHOOSE i \in DOMAIN UpperLetters : UpperLetters[i] = c]]

LowerChar(c) == IF c \in UpperSet THEN LowerMap[c] ELSE c

Lower(s) == [i \in DOMAIN s |-> LowerChar(s[i])]

(***************************************************************************)
(* String helpers                                                          *)
(***************************************************************************)
\* s[i:]  (1-based; empty when i > Len(s))
From(s, i) == IF i > Len(s) THEN <<>> ELSE SubSeq(s, i, Len(s))

\* s.startswith(p) looked at from position i
MatchesAt(s, i, p) ==
    /\ i + Len(p) - 1 <= Len(s)
    /\ \A k \in 1..Len(p) : s[i + k - 1] = p[k]

\* case-insensitive literal match (re.IGNORECASE)
MatchesAtNoCase(s, i, p) == MatchesAt(Lower(s), i, Lower(p))

\* first position >= i where p occurs in s, or 0
RECURSIVE FindFrom(_, _, _)
FindFrom(s, i, p) ==
    IF i + Len(p) - 1 > Len(s) THEN 0
    ELSE IF MatchesAt(s, i, p) THEN i
    ELSE FindFrom(s, i + 1, p)

Contains(s, p) == FindFrom(s, 1, p) # 0

\* number of occurrences of the character c
RECURSIVE CountChar(_, _)
CountChar(s, c) ==
    IF s = <<>> THEN 0
    ELSE (IF Head(s) = c THEN 1 ELSE 0) + CountChar(Tail(s), c)

\* str.strip()
RECURSIVE LStrip(_)
LStrip(s) == IF s # <<>> /\ IsSpace(Head(s)) THEN LStrip(Tail(s)) ELSE s

RECURSIVE RStrip(_)
RStrip(s) ==
    IF s # <<>> /\ IsSpace(s[Len(s)]) THEN RStrip(SubSeq(s, 1, Len(s) - 1)) ELSE s

Strip(s) == RStrip(LStrip(s))

\* str.splitlines(): break at every line break, no trailing empty line,
\* "" gives [].   cur is the line being collected.
RECURSIVE SplitLinesFrom(_, _, _)
SplitLinesFrom(s, i, cur) ==
    IF i > Len(s) THEN (IF cur = <<>> THEN <<>> ELSE <<cur>>)
    ELSE IF IsLineBreak(s[i]) THEN <<cur>> \o SplitLinesFrom(s, i + 1, <<>>)
    ELSE SplitLinesFrom(s, i + 1, Append(cur, s[i]))

\* "\r\n" counts as one break in Python; the inputs of the model use "\n" only
SplitLines(s) == SplitLinesFrom(s, 1, <<>>)

\* "\n".join(ls)
RECURSIVE JoinLines(_)
JoinLines(ls) ==
    IF ls = <<>> THEN <<>>
    ELSE IF Len(ls) = 1 THEN ls[1]
    ELSE ls[1] \o <<"\n">> \o JoinLines(Tail(ls))

(***************************************************************************)
(* clean_sql, step by step (pipeline.py 209-232)                           *)
(***************************************************************************)
\* The backtick character.  A TLA+ string cannot hold it, so the character
\* is written as this token; it is no letter, digit, "_", space or line break.
Backtick == "<backtick>"

Fence == <<Backtick, Backtick, Backtick>>

\* re.sub(r"```.*?```", "", sql, flags=re.DOTALL): scanning from i, the
\* leftmost fence and the nearest fence after it are removed TOGETHER WITH
\* the text between them; a fence with no later fence stays.
RECURSIVE StripFencesFrom(_, _)
StripFencesFrom(s, i) ==
    LET p == FindFrom(s, i, Fence)
        q == IF p = 0 THEN 0 ELSE FindFrom(s, p + 3, Fence)
    IN  IF q = 0 THEN From(s, i)
        ELSE SubSeq(s, i, p - 1) \o StripFencesFrom(s, q + 3)

StripFences(s) == StripFencesFrom(s, 1)

\* mutant of TruncateAtSemicolon: the terminator is appended but the text
\* after the first ";" is not cut (sql + ";" instead of split(";")[0] + ";")
TruncateNothingCut(s) ==
    IF FindFrom(s, 1, <<";">>) = 0 THEN s ELSE s \o <<";">>

\* if ";" in sql: sql = sql.split(";")[0] + ";"
TruncateAtSemicolon(s) ==
    LET p == FindFrom(s, 1, <<";">>)
    IN  IF p = 0 THEN s ELSE SubSeq(s, 1, p - 1) \o <<";">>

Keywords == { <<"s","e","l","e","c","t">>, <<"f","r","o","m">>,
              <<"w","h","e","r","e">>,     <<"g","r","o","u","p">>,
              <<"o","r","d","e","r">>,     <<"l","i","m","i","t">> }

\* stripped.lower().startswith(("select","from","where","group","order","limit"))
StartsWithKeyword(stripped) ==
    \E k \in Keywords : MatchesAt(Lower(stripped), 1, k)

\* end of the longest run of [a-zA-Z0-9_] / of \s starting at i
RECURSIVE SkipIdent(_, _)
SkipIdent(s, i) ==
    IF i <= Len(s) /\ IsIdentChar(s[i]) THEN SkipIdent(s, i + 1) ELSE i

RECURSIVE SkipSpace(_, _)
SkipSpace(s, i) ==
    IF i <= Len(s) /\ IsSpace(s[i]) THEN SkipSpace(s, i + 1) ELSE i

\* the tail  (,\s*[a-zA-Z0-9_]+)*\s*$  of bad_line, matched from i.
\* A "," that no identifier follows ends the repetition, and then \s*$
\* has to match at that ",", which it cannot.  ($ also matches before a
\* final "\n"; the argument is stripped, so it has none.)
RECURSIVE BadLineTail(_, _)
BadLineTail(s, i) ==
    IF i <= Len(s) /\ s[i] = ","
    THEN LET q == SkipSpace(s, i + 1)
             r == SkipIdent(s, q)
         IN  r > q /\ BadLineTail(s, r)
    ELSE SkipSpace(s, i) = Len(s) + 1

\* mutant of bad_line: the pattern without its tail, ^[a-zA-Z0-9_]+
bad_line_unanchored(stripped) == SkipIdent(stripped, 1) > 1

\* bad_line.match(stripped),
\* bad_line = ^[a-zA-Z0-9_]+(,\s*[a-zA-Z0-9_]+)*\s*$
bad_line(stripped) ==
    LET p == SkipIdent(stripped, 1)
    IN  p > 1 /\ BadLineTail(stripped, p)

\* one turn of the for loop: TRUE when the line is appended to good
KeepLine(line) ==
    LET stripped == Strip(line)
    IN  IF StartsWithKeyword(stripped) THEN TRUE
        ELSE IF bad_line(stripped) THEN FALSE
        ELSE TRUE

\* the for loop over sql.splitlines()
RECURSIVE FilterLines(_)
FilterLines(ls) ==
    IF ls = <<>> THEN <<>>
    ELSE (IF KeepLine(Head(ls)) THEN <<Head(ls)>> ELSE <<>>) \o FilterLines(Tail(ls))

OrderBy == <<"O","R","D","E","R"," ","B","Y">>

\* re.sub(r"ORDER BY\s+ORDER BY", "ORDER BY", sql, flags=re.IGNORECASE):
\* one left-to-right pass over non-overlapping matches; the scan resumes
\* after the text a match consumed.
RECURSIVE CollapseOrderByFrom(_, _)
CollapseOrderByFrom(s, i) ==
    IF i > Len(s) THEN <<>>
    ELSE LET a == i + Len(OrderBy)
             b == SkipSpace(s, a)
         IN  IF /\ MatchesAtNoCase(s, i, OrderBy)
                /\ b > a
                /\ MatchesAtNoCase(s, b, OrderBy)
             THEN OrderBy \o CollapseOrderByFrom(s, b + Len(OrderBy))
             ELSE <<s[i]>> \o CollapseOrderByFrom(s, i + 1)

CollapseOrderBy(s) == CollapseOrderByFrom(s, 1)

\* the text the line filter works on: lines 210-215
Prepared(s) == Strip(TruncateAtSemicolon(StripFences(s)))

\* lines 229-232, from the good list
Finish(g) == Strip(CollapseOrderBy(JoinLines(g)))

clean_sql(s) == Finish(FilterLines(SplitLines(Prepared(s))))

(***************************************************************************)
(* The texts clean_sql is applied to                                       *)
(***************************************************************************)
\* the most fragments a generated text is made of
MaxFrags == 4

\* pieces a completion is typically made of: the duplicated-ORDER-BY
\* artifact, a keyword, an identifier, and the separators the steps of
\* clean_sql look for
Fragments == { OrderBy \o <<" ">>,
               <<"S","E","L","E","C","T">>,
               <<"a">>, <<",">>, <<" ">>, <<"\n">>, <<";">>,
               Fence }

RECURSIVE TextsOf(_)
TextsOf(n) ==
    IF n = 0 THEN { <<>> }
    ELSE LET T == TextsOf(n - 1)
         IN  T \cup { x \o f : x \in T, f \in Fragments }

\* "```sql\nSELECT a FROM cars;\nextra, junk, line\n```"
FencedStatement ==
    << Backtick,Backtick,Backtick,"s","q","l","\n","S","E","L","E","C",
       "T"," ","a"," ","F","R","O","M"," ","c","a","r","s",";","\n","e",
       "x","t","r","a",","," ","j","u","n","k",","," ","l","i","n","e",
       "\n",Backtick,Backtick,Backtick >>

\* "SELECT a FROM cars;"
PlainStatement ==
    << "S","E","L","E","C","T"," ","a"," ","F","R","O","M"," ","c","a",
       "r","s",";" >>

\* "SELECT a FROM cars ORDER BY ORDER BY a;"
DoubledOrderBy ==
    << "S","E","L","E","C","T"," ","a"," ","F","R","O","M"," ","c","a",
       "r","s"," ","O","R","D","E","R"," ","B","Y"," ","O","R","D","E",
       "R"," ","B","Y"," ","a",";" >>

\* "SELECT a\nFROM cars\na ,b\nb,  c\nselect\n\n(a, b)\nlimit 5;"
MixedLines ==
    << "S","E","L","E","C","T"," ","a","\n","F","R","O","M"," ","c","a",
       "r","s","\n","a"," ",",","b","\n","b",","," "," ","c","\n","s","e",
       "l","e","c","t","\n","\n","(","a",","," ","b",")","\n","l","i","m",
       "i","t"," ","5",";" >>

Inputs == TextsOf(MaxFrags) \cup {FencedStatement, DoubledOrderBy, MixedLines}

(***************************************************************************)
(* SpecClean: clean_sql applied to every input, then to its own output     *)
(***************************************************************************)
Callers == {"app", "debug"}

SchemaColumns == {"city", "country", "manufacturer", "pop_model_name",
                  "pop_date", "pop_avg_vehicle_age_years",
                  "pop_vehicle_population", "pop_vehicle_retirements"}

NoPlan == [columns_needed |-> {}, filters |-> {}, aggregation |-> {}]

NoReply == [kind |-> "none", rows |-> <<>>]

\* the pipeline variables before any run (the module is imported: duck closed)
PipeIdle ==
    /\ pc = [c \in Callers |-> "idle"]
    /\ question = [c \in Callers |-> <<>>]
    /\ plan = [c \in Callers |-> NoPlan]
    /\ completion = [c \in Callers |-> <<>>]
    /\ sql = [c \in Callers |-> <<>>]
    /\ handed = [c \in Callers |-> <<>>]
    /\ conn = [c \in Callers |-> 0]
    /\ nextConn = 1
    /\ fetched = [c \in Callers |-> NoReply]
    /\ rows = [c \in Callers |-> <<>>]
    /\ insightArg = [c \in Callers |-> <<>>]
    /\ warned = [c \in Callers |-> FALSE]
    /\ error = [c \in Callers |-> "none"]
    /\ events = [c \in Callers |-> <<>>]

InitClean ==
    /\ phase = "input"
    /\ raw \in Inputs
    /\ lines = <<>>
    /\ good = <<>>
    /\ out1 = <<>>
    /\ out2 = <<>>
    /\ duck = "closed"
    /\ open = {}
    /\ PipeIdle

\* sql = clean_sql(raw), keeping the locals of the line filter
Sanitize ==
    /\ phase = "input"
    /\ phase' = "once"
    /\ lines' = SplitLines(Prepared(raw))
    /\ good' = FilterLines(lines')
    /\ out1' = clean_sql(raw)
    /\ UNCHANGED <<raw, out2, pipeVars>>

\* clean_sql applied to its own output
Resanitize ==
    /\ phase = "once"
    /\ phase' = "twice"
    /\ out2' = clean_sql(out1)
    /\ UNCHANGED <<raw, lines, good, out1, pipeVars>>

NextClean == Sanitize \/ Resanitize

SpecClean == InitClean /\ [][NextClean]_vars

(***************************************************************************)
(* The collaborators of the pipeline                                       *)
(***************************************************************************)
\* the most connections the runs of one behaviour open
MaxConns == 2

\* What requests.post(...) followed by out.json()["response"] can meet:
\*   unreachable        requests.post raises ConnectionError
\*   status_not_json    a non-success status whose body is no JSON
\*   status_error_json  a non-success status with the service's {"error": ...}
\*   ok                 a body with a "response" text
FailureKinds == {"unreachable", "status_not_json", "status_error_json"}

\* plan texts the reasoning model can answer, as the columns each field names
PlanTexts ==
    { [columns_needed |-> {"city"},
       filters |-> {"pop_avg_vehicle_age_years"},
       aggregation |-> {"pop_vehicle_retirements", "pop_vehicle_population"}],
      [columns_needed |-> {"country", "dealer_region"},
       filters |-> {"engine_size"},
       aggregation |-> {"pop_vehicle_population"}] }

PlanReplies ==
    [kind : FailureKinds, text : {NoPlan}] \cup [kind : {"ok"}, text : PlanTexts]

\* raw texts the SQL model can answer
RawSqls == {FencedStatement, DoubledOrderBy, PlainStatement, MixedLines, <<>>}

SqlReplies ==
    [kind : FailureKinds, text : {<<>>}] \cup [kind : {"ok"}, text : RawSqls]

\* the insight text is shown and never read again
InsightReplies ==
    [kind : FailureKinds \cup {"ok"}, text : {<<>>}]

\* what the store answers to conn.execute(sql).fetchall()
ResultSets == { <<>>, << <<"Berlin", 3>> >> }

StoreReplies ==
    [kind : {"rows"}, rows : ResultSets] \cup [kind : {"error"}, rows : {<<>>}]

\* the question box of the app; the debug runner's question is fixed
Questions == { <<>>, <<" ">>, <<"W","h","i","c","h"," ","c","i","t","y","?">> }

DebugQuestion == <<"W","h","i","c","h"," ","c","i","t","y","?">>

Event(stage, what) == [stage |-> stage, what |-> what]

(***************************************************************************)
(* The functions of pipeline.py, as values                                 *)
(***************************************************************************)
\* requests.post(...) then out.json()["response"]: no status check, the call
\* raises when the post raises, the body is no JSON or has no "response"
ResponseOf(reply) ==
    IF reply.kind = "unreachable"
    THEN [raised |-> "ConnectionError", text |-> reply.text]
    ELSE IF reply.kind = "status_not_json"
    THEN [raised |-> "JSONDecodeError", text |-> reply.text]
    ELSE IF reply.kind = "status_error_json"
    THEN [raised |-> "KeyError", text |-> reply.text]
    ELSE [raised |-> "none", text |-> reply.text]

\* mutant of make_sql_plan: a failed request is swallowed and an empty plan
\* returned (out.json().get("response", "") inside try/except)
make_sql_plan_swallowing(reply) == [raised |-> "none", text |-> reply.text]

\* make_sql_plan: one request, the response text returned as it came
make_sql_plan(reply) == ResponseOf(reply)

\* mutant of build_sql_from_plan: return sql instead of clean_sql(sql)
build_sql_unsanitized(reply) == ResponseOf(reply)

\* build_sql_from_plan: one request, the response text through clean_sql
build_sql_from_plan(reply) ==
    LET r == ResponseOf(reply)
    IN  IF r.raised # "none" THEN r
        ELSE [raised |-> "none", text |-> clean_sql(r.text)]

\* ask_reasoning_llm / make_insight: one request
make_insight(reply) == ResponseOf(reply)

\* mutant of run_sql_result: zero rows raised as an error
run_sql_raising_on_empty(answer) ==
    IF answer.kind = "rows" /\ answer.rows # <<>>
    THEN [raised |-> "none", rows |-> answer.rows]
    ELSE [raised |-> "duckdb.Error", rows |-> <<>>]

\* conn.execute(sql).fetchall(): the rows, or the store's error raised
run_sql_result(answer) ==
    IF answer.kind = "rows"
    THEN [raised |-> "none", rows |-> answer.rows]
    ELSE [raised |-> "duckdb.Error", rows |-> <<>>]

\* mutant of ConnectionsAfterWith: conn.close() after the query instead of
\* a with block, so an exception skips it
ConnectionsLeakedOnError(opened, h, raised) ==
    IF raised THEN opened ELSE opened \ {h}

\* leaving  with duckdb.connect(...) as conn:  closes conn, on return and on
\* an exception alike
ConnectionsAfterWith(opened, h, raised) == opened \ {h}

\* app.py 52-55: len(rows) == 0 shows the warning, else the table
ShowsNoRowsWarning(c, rs) == c = "app" /\ Len(rs) = 0

(***************************************************************************)
(* Spec: the two callers                                                   *)
(***************************************************************************)
Init ==
    /\ phase = "off"
    /\ raw = <<>>
    /\ lines = <<>>
    /\ good = <<>>
    /\ out1 = <<>>
    /\ out2 = <<>>
    /\ duck = "open"
    /\ open = {0}
    /\ PipeIdle

\* pipeline.py 21-64: the import-time connection loads the table, reads the
\* schema and the samples, and is closed before any function can be called
Bootstrap ==
    /\ duck = "open"
    /\ duck' = "closed"
    /\ open' = open \ {0}
    /\ UNCHANGED <<cleanVars, pc, question, plan, completion, sql, handed, conn,
                   nextConn, fetched, rows, insightArg, warned, error, events>>

\* app.py 37: run_button and question.strip();  pipeline.py 303: the fixed
\* question of run_debug_test
Start(c) ==
    /\ duck = "closed"
    /\ pc[c] = "idle"
    /\ \E q \in (IF c = "app" THEN Questions ELSE {DebugQuestion}) :
          /\ Strip(q) # <<>>
          /\ question' = [question EXCEPT ![c] = q]
    /\ pc' = [pc EXCEPT ![c] = "plan"]
    /\ UNCHANGED <<cleanVars, duck, plan, completion, sql, handed, conn, open,
                   nextConn, fetched, rows, insightArg, warned, error, events>>

\* plan = make_sql_plan(question)
PlanCall(c) ==
    /\ pc[c] = "plan"
    /\ \E reply \in PlanReplies :
          LET r == make_sql_plan(reply)
          IN  /\ events' = [events EXCEPT ![c] =
                              @ \o << Event("plan", "request"), Event("plan", reply.kind) >>]
              /\ IF r.raised # "none"
                 THEN /\ error' = [error EXCEPT ![c] = r.raised]
                      /\ pc' = [pc EXCEPT ![c] = "failed"]
                      /\ plan' = plan
                 ELSE /\ plan' = [plan EXCEPT ![c] = r.text]
                      /\ pc' = [pc EXCEPT ![c] = "synth"]
                      /\ error' = error
    /\ UNCHANGED <<cleanVars, duck, question, completion, sql, handed, conn, open,
                   nextConn, fetched, rows, insightArg, warned>>

\* sql = build_sql_from_plan(plan): the value make_sql returns
SynthCall(c) ==
    /\ pc[c] = "synth"
    /\ \E reply \in SqlReplies :
          LET r == build_sql_from_plan(reply)
          IN  /\ events' = [events EXCEPT ![c] =
                              @ \o << Event("sql", "request"), Event("sql", reply.kind) >>]
              /\ completion' = [completion EXCEPT ![c] = reply.text]
              /\ IF r.raised # "none"
                 THEN /\ error' = [error EXCEPT ![c] = r.raised]
                      /\ pc' = [pc EXCEPT ![c] = "failed"]
                      /\ sql' = sql
                 ELSE /\ sql' = [sql EXCEPT ![c] = r.text]
                      /\ pc' = [pc EXCEPT ![c] = "run"]
                      /\ error' = error
    /\ UNCHANGED <<cleanVars, duck, question, plan, handed, conn, open,
                   nextConn, fetched, rows, insightArg, warned>>

\* rows = run_sql(sql), entering the with block: duckdb.connect("cars.duckdb")
\* gives a new connection object, or raises
RunOpen(c) ==
    /\ pc[c] = "run"
    /\ handed' = [handed EXCEPT ![c] = sql[c]]
    /\ \/ /\ nextConn <= MaxConns
          /\ conn' = [conn EXCEPT ![c] = nextConn]
          /\ open' = open \cup {nextConn}
          /\ nextConn' = nextConn + 1
          /\ events' = [events EXCEPT ![c] = Append(@, Event("run_sql", "call"))]
          /\ pc' = [pc EXCEPT ![c] = "executing"]
          /\ error' = error
       \/ /\ events' = [events EXCEPT ![c] =
                          @ \o << Event("run_sql", "call"), Event("run_sql", "raised") >>]
          /\ error' = [error EXCEPT ![c] = "duckdb.Error"]
          /\ pc' = [pc EXCEPT ![c] = "failed"]
          /\ UNCHANGED <<conn, open, nextConn>>
    /\ UNCHANGED <<cleanVars, duck, question, plan, completion, sql,
                   fetched, rows, insightArg, warned>>

\* conn.execute(sql).fetchall() and the exit of the with block
RunFinish(c) ==
    /\ pc[c] = "executing"
    /\ \E answer \in StoreReplies :
          LET r == run_sql_result(answer)
          IN  /\ fetched' = [fetched EXCEPT ![c] = answer]
              /\ open' = ConnectionsAfterWith(open, conn[c], r.raised # "none")
              /\ IF r.raised # "none"
                 THEN /\ error' = [error EXCEPT ![c] = r.raised]
                      /\ pc' = [pc EXCEPT ![c] = "failed"]
                      /\ rows' = rows
                      /\ events' = [events EXCEPT ![c] =
                                      Append(@, Event("run_sql", "raised"))]
                 ELSE /\ rows' = [rows EXCEPT ![c] = r.rows]
                      /\ pc' = [pc EXCEPT ![c] = "results"]
                      /\ error' = error
                      /\ events' = [events EXCEPT ![c] =
                                      Append(@, Event("run_sql", "returned"))]
    /\ UNCHANGED <<cleanVars, duck, question, plan, completion, sql, handed, conn,
                   nextConn, insightArg, warned>>

\* app.py 51-55 (warning or table);  pipeline.py 315 (print)
ShowResults(c) ==
    /\ pc[c] = "results"
    /\ warned' = [warned EXCEPT ![c] = ShowsNoRowsWarning(c, rows[c])]
    /\ pc' = [pc EXCEPT ![c] = "insight"]
    /\ UNCHANGED <<cleanVars, duck, question, plan, completion, sql, handed, conn,
                   open, nextConn, fetched, rows, insightArg, error, events>>

\* insight = make_insight(question, rows)
InsightCall(c) ==
    /\ pc[c] = "insight"
    /\ insightArg' = [insightArg EXCEPT ![c] = rows[c]]
    /\ \E reply \in InsightReplies :
          LET r == make_insight(reply)
          IN  /\ events' = [events EXCEPT ![c] =
                              @ \o << Event("insight", "request"),
                                      Event("insight", reply.kind) >>]
              /\ IF r.raised # "none"
                 THEN /\ error' = [error EXCEPT ![c] = r.raised]
                      /\ pc' = [pc EXCEPT ![c] = "failed"]
                 ELSE /\ pc' = [pc EXCEPT ![c] = "done"]
                      /\ error' = error
    /\ UNCHANGED <<cleanVars, duck, question, plan, completion, sql, handed, conn,
                   open, nextConn, fetched, rows, warned>>

\* the script has ended (shown, or stopped by the exception); the next rerun
\* of app.py, or launch of the debug runner, starts from fresh locals
Rerun(c) ==
    /\ pc[c] \in {"done", "failed"}
    /\ pc' = [pc EXCEPT ![c] = "idle"]
    /\ question' = [question EXCEPT ![c] = <<>>]
    /\ plan' = [plan EXCEPT ![c] = NoPlan]
    /\ completion' = [completion EXCEPT ![c] = <<>>]
    /\ sql' = [sql EXCEPT ![c] = <<>>]
    /\ handed' = [handed EXCEPT ![c] = <<>>]
    /\ conn' = [conn EXCEPT ![c] = 0]
    /\ fetched' = [fetched EXCEPT ![c] = NoReply]
    /\ rows' = [rows EXCEPT ![c] = <<>>]
    /\ insightArg' = [insightArg EXCEPT ![c] = <<>>]
    /\ warned' = [warned EXCEPT ![c] = FALSE]
    /\ error' = [error EXCEPT ![c] = "none"]
    /\ events' = [events EXCEPT ![c] = <<>>]
    /\ UNCHANGED <<cleanVars, duck, open, nextConn>>

Next ==
    \/ Bootstrap
    \/ \E c \in Callers :
          \/ Start(c)
          \/ PlanCall(c)
          \/ SynthCall(c)
          \/ RunOpen(c)
          \/ RunFinish(c)
          \/ ShowResults(c)
          \/ InsightCall(c)
          \/ Rerun(c)

Spec == Init /\ [][Next]_vars

(***************************************************************************)
(* Properties of clean_sql (checked under SpecClean)                       *)
(***************************************************************************)

\* C1 -- idempotence: for every raw text x, clean_sql(clean_sql(x)) =
\* clean_sql(x).
C1_Idempotent == phase = "twice" => out2 = out1

\* C2 -- single statement: clean_sql(x) holds at most one ";", and when it
\* holds one, the ";" is its last character.
C2_SingleStatement ==
    phase # "input" =>
        /\ CountChar(out1, ";") <= 1
        /\ CountChar(out1, ";") = 1 => out1[Len(out1)] = ";"

\* C2 witness: a text with several ";" and text after the last has been cut
\* down to one statement.
C2_Witness ==
    /\ phase = "once"
    /\ CountChar(raw, ";") >= 2
    /\ raw[Len(raw)] = "a"
    /\ CountChar(out1, ";") = 1
    /\ Len(out1) > 1

\* an opening fence with a closing fence after it
HasFencedBlock(s) ==
    LET p == FindFrom(s, 1, Fence)
    IN  p # 0 /\ FindFrom(s, p + 3, Fence) # 0

\* C3 -- literal fencing: when the input holds a fenced block, paired or with
\* a stray fence besides, no fence marker is left in clean_sql's output.
C3_NoFenceInOutput ==
    (phase # "input" /\ HasFencedBlock(raw)) => ~Contains(out1, Fence)

\* C4 -- fence stripping keeps the enclosed text: the fenced block holding
\* "SELECT a FROM cars;" and the line "extra, junk, line" sanitizes to
\* exactly "SELECT a FROM cars;".
C4_FencedStatementKept ==
    (phase # "input" /\ raw = FencedStatement) => out1 = PlainStatement

\* the pieces of s between the occurrences of the character c
RECURSIVE PiecesFrom(_, _, _, _)
PiecesFrom(s, c, i, cur) ==
    IF i > Len(s) THEN <<cur>>
    ELSE IF s[i] = c THEN <<cur>> \o PiecesFrom(s, c, i + 1, <<>>)
    ELSE PiecesFrom(s, c, i + 1, Append(cur, s[i]))

AllIdent(s) == s # <<>> /\ \A i \in DOMAIN s : s[i] \in IdentChars

\* the line, surrounding whitespace ignored, starts with one of the six words
ClaimKeywordLine(l) ==
    LET w == Lower(Strip(l))
    IN  \E n \in 1..Len(w) : SubSeq(w, 1, n) \in Keywords

\* the line, surrounding whitespace ignored, is one or more identifiers
\* separated by commas, whitespace allowed after a comma
ClaimIdentList(l) ==
    LET items == PiecesFrom(Strip(l), ",", 1, <<>>)
    IN  /\ AllIdent(items[1])
        /\ \A i \in 2..Len(items) : AllIdent(LStrip(items[i]))

ClaimKeeps(l) == ~(~ClaimKeywordLine(l) /\ ClaimIdentList(l))

\* C10 -- line filter: a line of the truncated, trimmed text is dropped
\* exactly when it starts with none of select/from/where/group/order/limit
\* and is a comma-separated identifier list; the kept lines are all the
\* others, in their original order.
C10_LineFilter == phase # "input" => good = SelectSeq(lines, ClaimKeeps)

\* C10 witness: the filter dropped a list line, kept a keyword line that is
\* itself an identifier list, and kept a line that is neither.
C10_Witness ==
    /\ phase = "once"
    /\ Len(good) < Len(lines)
    /\ \E i \in DOMAIN good : ClaimKeywordLine(good[i]) /\ ClaimIdentList(good[i])
    /\ \E i \in DOMAIN good : ~ClaimKeywordLine(good[i]) /\ good[i] # <<>>

(***************************************************************************)
(* Properties of the pipeline (checked under Spec)                         *)
(***************************************************************************)
Happened(c, e) == \E i \in DOMAIN events[c] : events[c][i] = e

Requests(c, stage) ==
    Cardinality({i \in DOMAIN events[c] : events[c][i] = Event(stage, "request")})

\* clean_sql of each text the SQL model can answer
Cleaned == [x \in RawSqls |-> clean_sql(x)]

\* C5 -- raw completion text is never executed: what run_sql is called with
\* is clean_sql of the SQL model's completion, and the call comes after the
\* plan call and then the SQL call of the same run have returned.
C5_OnlySanitizedExecuted ==
    \A c \in Callers :
        Happened(c, Event("run_sql", "call")) =>
            /\ handed[c] = Cleaned[completion[c]]
            /\ Len(events[c]) >= 5
            /\ SubSeq(events[c], 1, 5) =
                  << Event("plan", "request"), Event("plan", "ok"),
                     Event("sql", "request"), Event("sql", "ok"),
                     Event("run_sql", "call") >>

\* C5 witness: run_sql is running a statement that differs from the raw
\* completion it came from.
C5_Witness ==
    \E c \in Callers :
        /\ pc[c] = "executing"
        /\ completion[c] = FencedStatement
        /\ handed[c] # completion[c]

PlanColumns(p) == p.columns_needed \cup p.filters \cup p.aggregation

\* C6 -- whitelist: every column named by a plan that make_sql passes from
\* plan generation to SQL synthesis is a column of the schema.
C6_PlanWhitelisted ==
    \A c \in Callers :
        pc[c] = "synth" => PlanColumns(plan[c]) \subseteq SchemaColumns

\* C7 -- completion failure is surfaced and never retried: a failed plan or
\* SQL request ends the run with the error raised to the caller, nothing of
\* the run follows it, and each stage issues at most one request per run.
C7_FailureSurfaced ==
    \A c \in Callers :
        /\ Requests(c, "plan") <= 1
        /\ Requests(c, "sql") <= 1
        /\ \A i \in DOMAIN events[c] :
              (events[c][i].stage \in {"plan", "sql"}
                 /\ events[c][i].what \in FailureKinds) =>
                    /\ i = Len(events[c])
                    /\ pc[c] = "failed"
                    /\ error[c] # "none"
                    /\ ~Happened(c, Event("run_sql", "call"))
                    /\ (events[c][i].stage = "plan" => Requests(c, "sql") = 0)

\* C7 witness: one run died in plan generation without an SQL request, the
\* other in SQL synthesis without a query.
C7_Witness ==
    /\ pc["app"] = "failed"
    /\ events["app"] = << Event("plan", "request"), Event("plan", "status_error_json") >>
    /\ pc["debug"] = "failed"
    /\ Len(events["debug"]) = 4
    /\ events["debug"][4] = Event("sql", "unreachable")

\* C8 -- an empty result is not an error: zero rows come back from run_sql
\* as an empty sequence (a store error is raised instead), and make_insight
\* is then called with exactly those rows, the app having shown its
\* no-rows warning.
C8_EmptyResultNotError ==
    \A c \in Callers :
        /\ fetched[c].kind = "rows" =>
              /\ Happened(c, Event("run_sql", "returned"))
              /\ ~Happened(c, Event("run_sql", "raised"))
              /\ rows[c] = fetched[c].rows
        /\ fetched[c].kind = "error" =>
              /\ pc[c] = "failed"
              /\ Happened(c, Event("run_sql", "raised"))
              /\ ~Happened(c, Event("insight", "request"))
        /\ Happened(c, Event("insight", "request")) =>
              /\ fetched[c].kind = "rows"
              /\ insightArg[c] = fetched[c].rows
              /\ (c = "app" /\ fetched[c].rows = <<>>) => warned[c]

\* C8 witness: the store answered zero rows and the app went on to the
\* insight call with the empty sequence.
C8_Witness ==
    /\ fetched["app"] = [kind |-> "rows", rows |-> <<>>]
    /\ Happened("app", Event("insight", "request"))
    /\ insightArg["app"] = <<>>
    /\ warned["app"]

\* C9 -- connection scoping: the open connections are exactly those of the
\* run_sql invocations in progress (plus the import-time one until it is
\* closed, before any run), each invocation has its own, and none is the
\* import-time handle.
C9_ConnectionScoped ==
    LET running == {c \in Callers : pc[c] = "executing"}
    IN  /\ open = {conn[c] : c \in running} \cup (IF duck = "open" THEN {0} ELSE {})
        /\ \A c \in running : conn[c] # 0
        /\ \A c, d \in running : c # d => conn[c] # conn[d]
        /\ duck = "open" => \A c \in Callers : pc[c] = "idle"

\* C9 witness: a query raised while the other caller's query was running;
\* the failed invocation's connection is closed, the other one still open.
C9_Witness ==
    \E c, d \in Callers :
        /\ c # d
        /\ pc[c] = "failed"
        /\ fetched[c].kind = "error"
        /\ conn[c] # 0
        /\ conn[c] \notin open
        /\ pc[d] = "executing"
        /\ conn[d] \in open

====
